---- MODULE Spec2Model ----
(***************************************************************************)
(* Model of the dev-environment bootstrapper (src/setup.py, src/utils.py). *)
(*                                                                         *)
(* The process is modelled as a state machine over the command line, the   *)
(* detected platform, the configuration file, the filesystem, the selected *)
(* package-manager adapter and its two private fields, the counters of the *)
(* running handler and main's totals.  Everything the program does to the  *)
(* outside world goes through run_cmd or the filesystem; both are recorded *)
(* in `trace`, in program order.  The result of an external command is an  *)
(* input of the step that runs it.                                         *)
(*                                                                         *)
(* Strings are TLA+ strings; an optional value (Python None) is the empty  *)
(* tuple <<>> and a present value v is <<v>>.                              *)
(***************************************************************************)
EXTENDS Integers, Sequences, FiniteSets, TLC

VARIABLES
    entry,            \* "main": the CLI process; "lib": a client calling the module's functions
    pc,               \* position of the process
    platform,         \* what Platform.detect() finds on this host
    command,          \* args.command
    dry_run,          \* args.dry_run
    cfgFile,          \* the configuration file on disk
    config,           \* the Config object once loaded
    fsFiles,          \* files that exist
    fsFiles0,         \* files that existed when the process started
    fsDirs,           \* directories created by the process
    avail,            \* result of each manager's availability probe
    manager,          \* name of the selected adapter, or NoManager
    installed_cache,  \* adapter field _installed_cache
    cache_updated,    \* adapter field _cache_updated
    idx,              \* loop position of the running handler
    success_count,    \* locals of the running handler
    skip_count,
    fail_count,
    total_success,    \* main's totals
    total_skip,
    total_fail,
    exit_code,        \* main's return value, -1 while running
    trace,            \* adapter calls, external commands and filesystem operations, in order
    console,          \* per-item lines / table rows printed
    calls             \* number of adapter calls made by a "lib" client

vars == <<entry, pc, platform, command, dry_run, cfgFile, config, fsFiles, fsFiles0,
          fsDirs, avail, manager, installed_cache, cache_updated, idx, success_count,
          skip_count, fail_count, total_success, total_skip, total_fail,
          exit_code, trace, console, calls>>

-----------------------------------------------------------------------------
(* Bounds *)

\* Most entries (packages plus file mappings) in a configuration file.
MaxItems == 2

\* Most adapter calls a "lib" client makes.
MaxCalls == 3

-----------------------------------------------------------------------------
(* Strings *)

UpperAlpha == "ABCDEFGHIJKLMNOPQRSTUVWXYZ"

LowerAlpha == "abcdefghijklmnopqrstuvwxyz"

LowerChar(c) ==
    IF \E i \in 1..Len(UpperAlpha) : SubSeq(UpperAlpha, i, i) = c
    THEN LET i == CHOOSE j \in 1..Len(UpperAlpha) : SubSeq(UpperAlpha, j, j) = c
         IN SubSeq(LowerAlpha, i, i)
    ELSE c

RECURSIVE Lower(_)
Lower(s) ==
    IF s = "" THEN ""
    ELSE LowerChar(SubSeq(s, 1, 1)) \o Lower(SubSeq(s, 2, Len(s)))

IsSpace(c) == c \in {" ", "\t"}

RECURSIVE LStrip(_)
LStrip(s) ==
    IF s # "" /\ IsSpace(SubSeq(s, 1, 1)) THEN LStrip(SubSeq(s, 2, Len(s))) ELSE s

RECURSIVE RStrip(_)
RStrip(s) ==
    IF s # "" /\ IsSpace(SubSeq(s, Len(s), Len(s)))
    THEN RStrip(SubSeq(s, 1, Len(s) - 1))
    ELSE s

Strip(s) == RStrip(LStrip(s))

\* Python `needle in hay` on strings.
Contains(hay, needle) ==
    \E i \in 1..(Len(hay) + 1) :
        /\ i + Len(needle) - 1 <= Len(hay)
        /\ SubSeq(hay, i, i + Len(needle) - 1) = needle

EndsWith(s, suffix) ==
    /\ Len(s) >= Len(suffix)
    /\ SubSeq(s, Len(s) - Len(suffix) + 1, Len(s)) = suffix

StartsWith(s, prefix) ==
    /\ Len(s) >= Len(prefix)
    /\ SubSeq(s, 1, Len(prefix)) = prefix

\* Position of the last occurrence of the one-character string c in s, 0 if none.
RECURSIVE LastIndexOf(_, _)
LastIndexOf(s, c) ==
    IF s = "" THEN 0
    ELSE IF SubSeq(s, Len(s), Len(s)) = c THEN Len(s)
    ELSE LastIndexOf(SubSeq(s, 1, Len(s) - 1), c)

\* key.rsplit("_", 1)[0]
RSplitHead(key) ==
    LET i == LastIndexOf(key, "_")
    IN IF i = 0 THEN key ELSE SubSeq(key, 1, i - 1)

Range(f) == {f[i] : i \in DOMAIN f}

-----------------------------------------------------------------------------
(* src/utils.py: Platform *)

Platforms == {"windows", "wsl", "macos", "unknown"}

is_unix(p) == p \in {"wsl", "macos"}

-----------------------------------------------------------------------------
(* Trace events *)

Ev(op, arg, to) == [op |-> op, arg |-> arg, to |-> to]

\* run_cmd(cmd) and whether the command succeeded.
RunCmd(cmd, success) == Ev("run_cmd", cmd, IF success THEN "ok" ELSE "failed")

-----------------------------------------------------------------------------
(* src/setup.py: the three adapters *)

Managers == {"winget", "brew", "apt"}

NoManager == "none"

ProbeCmd(m) == m \o " --version"

ListCmd(m) ==
    CASE m = "winget" -> "winget list --disable-interactivity"
      [] m = "brew"   -> "brew list --formula -1 && brew list --cask -1"
      [] m = "apt"    -> "dpkg-query -W -f='${Package}\\n'"

InstallPrefix(m) ==
    CASE m = "winget" -> "winget install "
      [] m = "brew"   -> "brew install "
      [] m = "apt"    -> "sudo apt install -y "

InstallSuffix(m) ==
    IF m = "winget"
    THEN " --accept-source-agreements --accept-package-agreements --silent"
    ELSE ""

\* The command string install() builds; arguments is optional.
InstallCmd(m, package_id, arguments) ==
    LET cmd == InstallPrefix(m) \o package_id \o InstallSuffix(m)
    IN IF arguments # <<>> /\ arguments[1] # "" THEN cmd \o " " \o arguments[1] ELSE cmd

UpdateCmd(m) == IF m = "brew" THEN "brew update" ELSE "sudo apt update"

\* The set built from the list command's output lines.
ParseList(m, lines) ==
    IF m = "winget"
    THEN {Lower(lines[i]) : i \in DOMAIN lines}
    ELSE {Lower(Strip(lines[i])) : i \in DOMAIN lines}

\* get_installed_packages testing the cache for truth instead of for None.
get_installed_packages_Truthy(m, cache, out, tr) ==
    IF cache # <<>> /\ cache[1] # {}
    THEN [ret |-> cache[1], cache |-> cache, trace |-> tr]
    ELSE LET c == IF out.success THEN ParseList(m, out.stdout) ELSE {}
         IN [ret |-> c, cache |-> <<c>>, trace |-> Append(tr, RunCmd(ListCmd(m), out.success))]

\* get_installed_packages: out is what the list command would answer,
\* [success, stdout] with stdout given as its lines.
get_installed_packages(m, cache, out, tr) ==
    IF cache # <<>>
    THEN [ret |-> cache[1], cache |-> cache, trace |-> tr]
    ELSE LET c == IF out.success THEN ParseList(m, out.stdout) ELSE {}
         IN [ret |-> c, cache |-> <<c>>, trace |-> Append(tr, RunCmd(ListCmd(m), out.success))]

Matches(m, package_id, installed) ==
    IF m = "winget"
    THEN \E line \in installed : Contains(line, Lower(package_id))
    ELSE Lower(package_id) \in installed

is_installed(m, package_id, cache, out, tr) ==
    LET g == get_installed_packages(m, cache, out, Append(tr, Ev("is_installed", package_id, "")))
        r == Matches(m, package_id, g.ret)
    IN [ret |-> r, cache |-> g.cache,
        trace |-> Append(g.trace, Ev("returned", package_id, IF r THEN "True" ELSE "False"))]

\* install: ok is what the install command would answer.
install(m, package_id, arguments, dry, ok, tr) ==
    LET t == Append(tr, Ev("install", package_id, IF dry THEN "dry_run" ELSE ""))
    IN IF dry
       THEN [ret |-> TRUE, trace |-> t]
       ELSE [ret |-> ok, trace |-> Append(t, RunCmd(InstallCmd(m, package_id, arguments), ok))]

\* update_cache that does not look at _cache_updated.
update_cache_NoFlag(m, updated, dry, ok, tr) ==
    LET t == Append(tr, Ev("update_cache", m, IF dry THEN "dry_run" ELSE ""))
    IN IF m = "winget" \/ dry
       THEN [updated |-> updated, trace |-> t]
       ELSE [updated |-> TRUE, trace |-> Append(t, RunCmd(UpdateCmd(m), ok))]

\* update_cache: ok is what the refresh command would answer (it is ignored).
update_cache(m, updated, dry, ok, tr) ==
    LET t == Append(tr, Ev("update_cache", m, IF dry THEN "dry_run" ELSE ""))
    IN IF m = "winget" \/ updated \/ dry
       THEN [updated |-> updated, trace |-> t]
       ELSE [updated |-> TRUE, trace |-> Append(t, RunCmd(UpdateCmd(m), ok))]

\* get_package_manager falling back to apt on macos as well.
get_package_manager_AptAnywhere(p, av) ==
    IF p = "windows"
    THEN [mgr |-> IF av["winget"] THEN "winget" ELSE NoManager, probed |-> <<"winget">>]
    ELSE IF p \in {"wsl", "macos"}
    THEN IF av["brew"]
         THEN [mgr |-> "brew", probed |-> <<"brew">>]
         ELSE [mgr |-> IF av["apt"] THEN "apt" ELSE NoManager, probed |-> <<"brew", "apt">>]
    ELSE [mgr |-> NoManager, probed |-> <<>>]

\* get_package_manager: av[m] is what manager m's probe would answer.  The
\* result names the adapter returned and the probes made, in order.
get_package_manager(p, av) ==
    IF p = "windows"
    THEN [mgr |-> IF av["winget"] THEN "winget" ELSE NoManager, probed |-> <<"winget">>]
    ELSE IF p \in {"wsl", "macos"}
    THEN IF av["brew"]
         THEN [mgr |-> "brew", probed |-> <<"brew">>]
         ELSE IF p = "wsl"
              THEN [mgr |-> IF av["apt"] THEN "apt" ELSE NoManager, probed |-> <<"brew", "apt">>]
              ELSE [mgr |-> NoManager, probed |-> <<"brew">>]
    ELSE [mgr |-> NoManager, probed |-> <<>>]

-----------------------------------------------------------------------------
(* Values of the configuration document (what tomllib.load returns) *)

StrV(s) == [kind |-> "str", str |-> s, items |-> <<>>]

\* A TOML integer, with its text.
IntV(s) == [kind |-> "int", str |-> s, items |-> <<>>]

\* A TOML table: its key/value items in document order.
TableV(items) == [kind |-> "table", str |-> "", items |-> items]

KV(k, v) == [key |-> k, value |-> v]

\* Python truthiness of a document value.
Truthy(v) ==
    CASE v.kind = "str"   -> v.str # ""
      [] v.kind = "int"   -> v.str # "0"
      [] v.kind = "table" -> v.items # <<>>

RawPkg(section, name, data) == [section |-> section, name |-> name, data |-> data]

RawFile(source, data) == [source |-> source, data |-> data]

\* The package entries configuration files are written from.
RawPackages ==
    { RawPkg("common", "git", StrV("git")),
      RawPkg("common", "vim",
             TableV(<<KV("brew", StrV("vim")), KV("winget", StrV("Vim.Vim")),
                      KV("apt", StrV("vim"))>>)),
      RawPkg("common", "term",
             TableV(<<KV("windows", StrV("wt")), KV("windows_args", StrV("-e")),
                      KV("pin", IntV("1"))>>)),
      RawPkg("unix_only", "vi",
             TableV(<<KV("brew", StrV("vim")), KV("macos", StrV("mvim")),
                      KV("wsl", StrV("vi"))>>)),
      RawPkg("gui_only", "ui",
             TableV(<<KV("winget", StrV("Vim.Vim")), KV("macos", StrV("ui"))>>)),
      RawPkg("extras", "tool",
             TableV(<<KV("brew", StrV("tool")), KV("winget", StrV("Tool")),
                      KV("apt", StrV("tool"))>>)),
      RawPkg("macos_only", "mac",
             TableV(<<KV("macos", StrV("mas")), KV("default_args", StrV("--cask"))>>)),
      RawPkg("wsl_only", "deb",
             TableV(<<KV("apt", StrV("vim")), KV("brew", StrV(""))>>)),
      RawPkg("windows_only", "num", IntV("42")) }

\* The file entries configuration files are written from.
RawFiles ==
    { RawFile("a", StrV("~/d/a")),
      RawFile("b", TableV(<<KV("windows", StrV("w/b"))>>)),
      RawFile("w/b", StrV("~/e")) }

\* Sequences over S without repetition, of length at most n.
InjSeqs(S, n) ==
    {s \in UNION {[1..k -> S] : k \in 0..n} :
        \A i, j \in DOMAIN s : i # j => s[i] # s[j]}

\* The configuration file: absent, not TOML, or a document whose package
\* entries and file entries are listed in document order.
ConfigFiles ==
    {[state |-> st, packages |-> <<>>, files |-> <<>>] : st \in {"missing", "unparsable"}}
    \cup
    {[state |-> "ok", packages |-> p, files |-> f] :
        <<p, f>> \in {pf \in InjSeqs(RawPackages, MaxItems) \X InjSeqs(RawFiles, MaxItems) :
                        Len(pf[1]) + Len(pf[2]) <= MaxItems}}

SourcesOf(file) == {file.files[i].source : i \in DOMAIN file.files}

\* What the list command of manager m may print (as lines), besides failing.
ListStdouts(m) ==
    IF m = "winget"
    THEN {<<>>, <<"Name Id Version", "Vim Vim.Vim 9.1">>}
    ELSE {<<>>, <<"Vim ", "tool">>}

ListOutcomes(m) ==
    {[success |-> FALSE, stdout |-> <<>>]}
    \cup {[success |-> TRUE, stdout |-> l] : l \in ListStdouts(m)}

\* The user's home directory.
Home == "/h"

-----------------------------------------------------------------------------
(* src/setup.py: Package, FileMapping, Config *)

\* Package.get_id trying the platform key before the manager key.
get_id_PlatformFirst(pkg, p, m) ==
    IF p \in DOMAIN pkg.ids THEN <<pkg.ids[p]>>
    ELSE IF m \in DOMAIN pkg.ids THEN <<pkg.ids[m]>>
    ELSE <<>>

\* Package.get_id: the optional identifier.
get_id(pkg, p, m) ==
    IF m \in DOMAIN pkg.ids THEN <<pkg.ids[m]>>
    ELSE IF p \in DOMAIN pkg.ids THEN <<pkg.ids[p]>>
    ELSE <<>>

\* `not package_id`: None or the empty string.
NoId(package_id) == package_id = <<>> \/ package_id[1] = ""

\* Package.get_arguments: the optional argument text.
get_arguments(pkg, p) ==
    IF pkg.arguments = <<>> \/ DOMAIN pkg.arguments[1] = {}
    THEN <<>>
    ELSE LET a == pkg.arguments[1]
         IN IF p \in DOMAIN a /\ Truthy(a[p]) THEN <<a[p].str>>
            ELSE IF "default" \in DOMAIN a THEN <<a["default"].str>>
            ELSE <<>>

\* Path.expanduser
expanduser(path) ==
    IF path = "~" THEN Home
    ELSE IF StartsWith(path, "~/") THEN Home \o SubSeq(path, 2, Len(path))
    ELSE path

\* FileMapping.get_destination: the optional destination path.
get_destination(fm, p) ==
    IF p \in DOMAIN fm.destinations
    THEN <<expanduser(fm.destinations[p])>>
    ELSE <<>>

\* Path.parent
Parent(path) ==
    LET i == LastIndexOf(path, "/")
    IN IF i = 0 THEN "." ELSE IF i = 1 THEN "/" ELSE SubSeq(path, 1, i - 1)

\* The directories Path.mkdir(parents=True, exist_ok=True) makes sure exist.
RECURSIVE MkdirP(_)
MkdirP(dir) ==
    IF dir \in {".", "/"} THEN {} ELSE {dir} \cup MkdirP(Parent(dir))

\* Config.load, packages: one entry of a section.
ParsePackage(name, data) ==
    IF data.kind = "str"
    THEN <<[name |-> name, ids |-> [k \in {"default"} |-> data.str], arguments |-> <<>>]>>
    ELSE IF data.kind = "table"
    THEN LET it == data.items
             argI == {i \in DOMAIN it : EndsWith(it[i].key, "_args")}
             idI == {i \in DOMAIN it : ~EndsWith(it[i].key, "_args") /\ it[i].value.kind = "str"}
             ids == [k \in {it[i].key : i \in idI} |->
                        it[CHOOSE i \in idI : it[i].key = k].value.str]
             arguments == [k \in {RSplitHead(it[i].key) : i \in argI} |->
                        it[CHOOSE i \in argI : RSplitHead(it[i].key) = k].value]
         IN <<[name |-> name, ids |-> ids,
               arguments |-> IF argI = {} THEN <<>> ELSE <<arguments>>]>>
    ELSE <<>>

\* Config.load, files: one entry.
ParseFile(source, data) ==
    IF data.kind = "str"
    THEN <<[source |-> source,
            destinations |-> [k \in {"windows", "wsl", "macos"} |-> data.str]]>>
    ELSE IF data.kind = "table"
    THEN <<[source |-> source,
            destinations |-> [k \in {data.items[i].key : i \in DOMAIN data.items} |->
                data.items[CHOOSE i \in DOMAIN data.items : data.items[i].key = k].value.str]]>>
    ELSE <<>>

\* The section names of the document, in order of first appearance.
RECURSIVE SectionNames(_)
SectionNames(entries) ==
    IF entries = <<>> THEN <<>>
    ELSE LET rest == SectionNames(SubSeq(entries, 1, Len(entries) - 1))
             s == entries[Len(entries)].section
         IN IF s \in Range(rest) THEN rest ELSE Append(rest, s)

RECURSIVE ParseSection(_, _)
ParseSection(entries, section) ==
    IF entries = <<>> THEN <<>>
    ELSE LET e == Head(entries)
         IN (IF e.section = section THEN ParsePackage(e.name, e.data) ELSE <<>>)
            \o ParseSection(Tail(entries), section)

RECURSIVE ParseFiles(_)
ParseFiles(entries) ==
    IF entries = <<>> THEN <<>>
    ELSE ParseFile(Head(entries).source, Head(entries).data) \o ParseFiles(Tail(entries))

NoConfig == [packages |-> <<>>, files |-> <<>>]

\* Config.load: the optional Config.  packages lists each section with its
\* packages, in document order.
Config_load(file) ==
    IF file.state # "ok" THEN <<>>
    ELSE LET names == SectionNames(file.packages)
         IN <<[packages |-> [i \in DOMAIN names |->
                    [section |-> names[i], pkgs |-> ParseSection(file.packages, names[i])]],
               files |-> ParseFiles(file.files)]>>

\* config.packages.get(section, [])
SectionPackages(cfg, section) ==
    IF \E i \in DOMAIN cfg.packages : cfg.packages[i].section = section
    THEN cfg.packages[CHOOSE i \in DOMAIN cfg.packages : cfg.packages[i].section = section].pkgs
    ELSE <<>>

-----------------------------------------------------------------------------
(* src/setup.py: what install_packages and show_status iterate over *)

sections_to_process(p) ==
    <<"common">>
    \o (IF p = "windows" THEN <<"gui_only", "windows_only">>
        ELSE IF is_unix(p)
             THEN <<"unix_only">>
                  \o (IF p = "wsl" THEN <<"wsl_only">>
                      ELSE IF p = "macos" THEN <<"macos_only">> ELSE <<>>)
             ELSE <<>>)

Tag(section, pkgs) == [i \in DOMAIN pkgs |-> [section |-> section, pkg |-> pkgs[i]]]

\* The (section, package) pairs install_packages visits, in order.
RECURSIVE InstallWorkOf(_, _)
InstallWorkOf(cfg, sections) ==
    IF sections = <<>> THEN <<>>
    ELSE Tag(Head(sections), SectionPackages(cfg, Head(sections)))
         \o InstallWorkOf(cfg, Tail(sections))

InstallWork(cfg, p) == InstallWorkOf(cfg, sections_to_process(p))

\* show_status: the sections it skips.
StatusSkips(section, p) ==
    \/ section = "gui_only" /\ p # "windows"
    \/ section = "windows_only" /\ p # "windows"
    \/ section = "unix_only" /\ ~is_unix(p)
    \/ section = "wsl_only" /\ p # "wsl"
    \/ section = "macos_only" /\ p # "macos"

\* The (section, package) pairs show_status visits, in order.
RECURSIVE StatusWorkOf(_, _)
StatusWorkOf(secs, p) ==
    IF secs = <<>> THEN <<>>
    ELSE (IF StatusSkips(Head(secs).section, p) THEN <<>>
          ELSE Tag(Head(secs).section, Head(secs).pkgs))
         \o StatusWorkOf(Tail(secs), p)

StatusWork(cfg, p) == StatusWorkOf(cfg.packages, p)

-----------------------------------------------------------------------------
(* Initial state *)

Commands == {"all", "packages", "files", "status"}

\* The process starts from main with the parsed arguments (a help request
\* returns 0 before anything is looked at and is left out), or as a client
\* that calls get_package_manager and the adapter's methods itself.  Only
\* the source files the configuration names matter to the program.

Init ==
    /\ entry \in {"main", "lib"}
    /\ pc = entry
    /\ platform \in Platforms
    /\ IF entry = "main"
       THEN /\ command \in Commands
            /\ dry_run \in BOOLEAN
            /\ cfgFile \in ConfigFiles
            /\ fsFiles \in SUBSET SourcesOf(cfgFile)
       ELSE /\ command = "all"
            /\ dry_run = FALSE
            /\ cfgFile = [state |-> "missing", packages |-> <<>>, files |-> <<>>]
            /\ fsFiles = {}
    /\ fsFiles0 = fsFiles
    /\ config = NoConfig
    /\ fsDirs = {}
    /\ avail = [m \in Managers |-> "unprobed"]
    /\ manager = NoManager
    /\ installed_cache = <<>>
    /\ cache_updated = FALSE
    /\ idx = 1
    /\ success_count = 0
    /\ skip_count = 0
    /\ fail_count = 0
    /\ total_success = 0
    /\ total_skip = 0
    /\ total_fail = 0
    /\ exit_code = -1
    /\ trace = <<>>
    /\ console = <<>>
    /\ calls = 0

-----------------------------------------------------------------------------
(* Helpers of the actions *)

inputs == <<entry, platform, command, dry_run, cfgFile, fsFiles0>>

counters == <<success_count, skip_count, fail_count>>

totals == <<total_success, total_skip, total_fail>>

adapter == <<installed_cache, cache_updated>>

fs == <<fsFiles, fsDirs>>

\* main returns code.
Return(code) == pc' = "done" /\ exit_code' = code

Row(who, section, name, text) ==
    [who |-> who, section |-> section, name |-> name, text |-> text]

\* A call of get_package_manager(platform): a fresh adapter and its probes.
Select(av) ==
    LET r == get_package_manager(platform, av)
    IN /\ manager' = r.mgr
       /\ avail' = [m \in Managers |->
                      IF m \in Range(r.probed)
                      THEN (IF av[m] THEN "yes" ELSE "no")
                      ELSE avail[m]]
       /\ trace' = trace \o [i \in DOMAIN r.probed |->
                                RunCmd(ProbeCmd(r.probed[i]), av[r.probed[i]])]
       /\ installed_cache' = <<>>
       /\ cache_updated' = FALSE

-----------------------------------------------------------------------------
(* main *)

\* Platform.detect() and the unsupported-platform exit.
MainDetect ==
    /\ pc = "main"
    /\ IF platform = "unknown"
       THEN Return(2)
       ELSE pc' = "load" /\ exit_code' = exit_code
    /\ UNCHANGED <<inputs, config, fs, avail, manager, adapter, idx, counters,
                   totals, trace, console, calls>>

\* Config.load and the dispatch on the command.
MainLoad ==
    /\ pc = "load"
    /\ LET c == Config_load(cfgFile)
       IN IF c = <<>>
          THEN Return(2) /\ config' = config
          ELSE /\ config' = c[1]
               /\ exit_code' = exit_code
               /\ pc' = CASE command = "status" -> "show_status"
                          [] command \in {"all", "packages"} -> "select"
                          [] OTHER -> "copy_files"
    /\ UNCHANGED <<inputs, fs, avail, manager, adapter, idx, counters, totals,
                   trace, console, calls>>

\* main going on to copy_files when there is no package manager.
MainSelect_CopiesAnyway ==
    /\ pc = "select"
    /\ \E av \in [Managers -> BOOLEAN] :
        /\ Select(av)
        /\ pc' = IF manager' = NoManager THEN "copy_files" ELSE "install_packages"
        /\ exit_code' = exit_code
    /\ UNCHANGED <<inputs, config, fs, idx, counters, totals, console, calls>>

\* get_package_manager for the commands all and packages.
MainSelect ==
    /\ pc = "select"
    /\ \E av \in [Managers -> BOOLEAN] :
        /\ Select(av)
        /\ IF manager' = NoManager
           THEN Return(2)
           ELSE pc' = "install_packages" /\ exit_code' = exit_code
    /\ UNCHANGED <<inputs, config, fs, idx, counters, totals, console, calls>>

\* main returning 0 whatever the totals.
Summary_AlwaysZero ==
    /\ pc = "summary"
    /\ Return(0)
    /\ UNCHANGED <<inputs, config, fs, avail, manager, adapter, idx, counters,
                   totals, trace, console, calls>>

\* The summary and main's return value.
Summary ==
    /\ pc = "summary"
    /\ Return(IF total_fail = 0 THEN 0 ELSE 1)
    /\ UNCHANGED <<inputs, config, fs, avail, manager, adapter, idx, counters,
                   totals, trace, console, calls>>

-----------------------------------------------------------------------------
(* install_packages *)

\* What one loop iteration yields: the counter increments, the adapter's
\* cache, the trace and the line printed.
Item(ok, skip, fail, cache, tr, row) ==
    [ok |-> ok, skip |-> skip, fail |-> fail, cache |-> cache, trace |-> tr, row |-> row]

\* Entry of install_packages: the counters and the single cache refresh.
InstallBegin ==
    /\ pc = "install_packages"
    /\ success_count' = 0 /\ skip_count' = 0 /\ fail_count' = 0
    /\ idx' = 1
    /\ IF ~dry_run
       THEN \E ok \in BOOLEAN :
              LET u == update_cache(manager, cache_updated, dry_run, ok, trace)
              IN cache_updated' = u.updated /\ trace' = u.trace
       ELSE UNCHANGED <<cache_updated, trace>>
    /\ pc' = "install_loop"
    /\ UNCHANGED <<inputs, config, fs, avail, manager, installed_cache, totals,
                   exit_code, console, calls>>

\* One package of the dry-run table.
install_dry_item(w, out) ==
    LET package_id == get_id(w.pkg, platform, manager)
        row(text) == Row("install_packages", w.section, w.pkg.name, text)
    IN IF NoId(package_id)
       THEN Item(0, 1, 0, installed_cache, trace, row("SKIP (no ID)"))
       ELSE LET q == is_installed(manager, package_id[1], installed_cache, out, trace)
            IN IF q.ret
               THEN Item(0, 1, 0, q.cache, q.trace, row("SKIP (installed)"))
               ELSE Item(1, 0, 0, q.cache, q.trace, row("INSTALL"))

\* The normal-mode loop recording a successful install in the adapter's
\* cache.
install_real_item_CachesInstall(w, out, ok) ==
    LET package_id == get_id(w.pkg, platform, manager)
        row(text) == Row("install_packages", w.section, w.pkg.name, text)
    IN IF NoId(package_id)
       THEN Item(0, 1, 0, installed_cache, trace, row("SKIP (no ID)"))
       ELSE LET q == is_installed(manager, package_id[1], installed_cache, out, trace)
            IN IF q.ret
               THEN Item(0, 1, 0, q.cache, q.trace, row("SKIP (already installed)"))
               ELSE LET i == install(manager, package_id[1],
                                     get_arguments(w.pkg, platform), FALSE, ok, q.trace)
                    IN IF i.ret
                       THEN Item(1, 0, 0, <<q.cache[1] \cup {Lower(package_id[1])}>>,
                                 i.trace, row("OK"))
                       ELSE Item(0, 0, 1, q.cache, i.trace, row("FAIL"))

\* The normal-mode loop counting a package without id as a failure.
install_real_item_NoIdFails(w, out, ok) ==
    LET package_id == get_id(w.pkg, platform, manager)
        row(text) == Row("install_packages", w.section, w.pkg.name, text)
    IN IF NoId(package_id)
       THEN Item(0, 0, 1, installed_cache, trace, row("FAIL"))
       ELSE LET q == is_installed(manager, package_id[1], installed_cache, out, trace)
            IN IF q.ret
               THEN Item(0, 1, 0, q.cache, q.trace, row("SKIP (already installed)"))
               ELSE LET i == install(manager, package_id[1],
                                     get_arguments(w.pkg, platform), FALSE, ok, q.trace)
                    IN IF i.ret
                       THEN Item(1, 0, 0, q.cache, i.trace, row("OK"))
                       ELSE Item(0, 0, 1, q.cache, i.trace, row("FAIL"))

\* One package of the normal-mode loop.
install_real_item(w, out, ok) ==
    LET package_id == get_id(w.pkg, platform, manager)
        row(text) == Row("install_packages", w.section, w.pkg.name, text)
    IN IF NoId(package_id)
       THEN Item(0, 1, 0, installed_cache, trace, row("SKIP (no ID)"))
       ELSE LET q == is_installed(manager, package_id[1], installed_cache, out, trace)
            IN IF q.ret
               THEN Item(0, 1, 0, q.cache, q.trace, row("SKIP (already installed)"))
               ELSE LET i == install(manager, package_id[1],
                                     get_arguments(w.pkg, platform), FALSE, ok, q.trace)
                    IN IF i.ret
                       THEN Item(1, 0, 0, q.cache, i.trace, row("OK"))
                       ELSE Item(0, 0, 1, q.cache, i.trace, row("FAIL"))

\* The effect of one iteration on the state.
Apply(r) ==
    /\ success_count' = success_count + r.ok
    /\ skip_count' = skip_count + r.skip
    /\ fail_count' = fail_count + r.fail
    /\ installed_cache' = r.cache
    /\ trace' = r.trace
    /\ console' = Append(console, r.row)
    /\ idx' = idx + 1

InstallDry ==
    /\ pc = "install_loop"
    /\ dry_run
    /\ idx <= Len(InstallWork(config, platform))
    /\ \E out \in ListOutcomes(manager) :
        Apply(install_dry_item(InstallWork(config, platform)[idx], out))
    /\ UNCHANGED <<inputs, pc, config, fs, avail, manager, cache_updated, totals,
                   exit_code, calls>>

InstallReal ==
    /\ pc = "install_loop"
    /\ ~dry_run
    /\ idx <= Len(InstallWork(config, platform))
    /\ \E out \in ListOutcomes(manager), ok \in BOOLEAN :
        Apply(install_real_item(InstallWork(config, platform)[idx], out, ok))
    /\ UNCHANGED <<inputs, pc, config, fs, avail, manager, cache_updated, totals,
                   exit_code, calls>>

\* A handler returns its counters and main adds them to its totals.
AddTotals ==
    /\ total_success' = total_success + success_count
    /\ total_skip' = total_skip + skip_count
    /\ total_fail' = total_fail + fail_count

\* install_packages giving up at the first failed install.
InstallReturn_OnFailure ==
    /\ pc = "install_loop"
    /\ idx > Len(InstallWork(config, platform)) \/ fail_count > 0
    /\ AddTotals
    /\ pc' = IF command = "all" THEN "copy_files" ELSE "summary"
    /\ UNCHANGED <<inputs, config, fs, avail, manager, adapter, idx, counters,
                   exit_code, trace, console, calls>>

InstallReturn ==
    /\ pc = "install_loop"
    /\ idx > Len(InstallWork(config, platform))
    /\ AddTotals
    /\ pc' = IF command = "all" THEN "copy_files" ELSE "summary"
    /\ UNCHANGED <<inputs, config, fs, avail, manager, adapter, idx, counters,
                   exit_code, trace, console, calls>>

-----------------------------------------------------------------------------
(* copy_files *)

CopyBegin ==
    /\ pc = "copy_files"
    /\ success_count' = 0 /\ skip_count' = 0 /\ fail_count' = 0
    /\ idx' = 1
    /\ pc' = "copy_loop"
    /\ UNCHANGED <<inputs, config, fs, avail, manager, adapter, totals, exit_code,
                   trace, console, calls>>

\* What one file mapping yields.
FileItem(ok, skip, fail, files, dirs, tr, row) ==
    [ok |-> ok, skip |-> skip, fail |-> fail, files |-> files, dirs |-> dirs,
     cache |-> installed_cache, trace |-> tr, row |-> row]

Exists(source) == Ev("exists", source, IF source \in fsFiles THEN "True" ELSE "False")

\* The action the dry-run table shows for a mapping when files exist.
dry_file_action(fm, p, files) ==
    IF get_destination(fm, p) = <<>> THEN "SKIP (no destination)"
    ELSE IF fm.source \notin files THEN "FAIL (source not found)"
    ELSE "COPY"

\* The dry-run table copying the file it lists.
copy_dry_item_Copies(fm) ==
    LET dest == get_destination(fm, platform)
        row(text) == Row("copy_files", "", fm.source, text)
    IN IF dest = <<>>
       THEN FileItem(0, 1, 0, fsFiles, fsDirs, trace, row("SKIP (no destination)"))
       ELSE IF fm.source \notin fsFiles
       THEN FileItem(0, 0, 1, fsFiles, fsDirs, Append(trace, Exists(fm.source)),
                     row("FAIL (source not found)"))
       ELSE FileItem(1, 0, 0, fsFiles \cup {dest[1]}, fsDirs \cup MkdirP(Parent(dest[1])),
                     Append(Append(Append(trace, Exists(fm.source)),
                                   Ev("mkdir", Parent(dest[1]), "ok")),
                            Ev("copy2", fm.source, dest[1])),
                     row("COPY"))

\* One mapping of the dry-run table.
copy_dry_item(fm) ==
    LET dest == get_destination(fm, platform)
        row(text) == Row("copy_files", "", fm.source, text)
    IN IF dest = <<>>
       THEN FileItem(0, 1, 0, fsFiles, fsDirs, trace, row("SKIP (no destination)"))
       ELSE IF fm.source \notin fsFiles
       THEN FileItem(0, 0, 1, fsFiles, fsDirs, Append(trace, Exists(fm.source)),
                     row("FAIL (source not found)"))
       ELSE FileItem(1, 0, 0, fsFiles, fsDirs, Append(trace, Exists(fm.source)), row("COPY"))

\* The normal-mode loop creating the destination directory before it looks
\* for the source.
copy_real_item_MkdirFirst(fm, raised) ==
    LET dest == get_destination(fm, platform)
        row(text) == Row("copy_files", "", fm.source, text)
    IN IF dest = <<>>
       THEN FileItem(0, 1, 0, fsFiles, fsDirs, trace, row("SKIP (no destination)"))
       ELSE LET dir == Parent(dest[1])
                t1 == Append(trace, Ev("mkdir", dir, IF raised = "mkdir" THEN "raised" ELSE "ok"))
                t2 == Append(t1, Exists(fm.source))
                t3 == Append(t2, Ev("copy2", fm.source,
                                    IF raised = "copy2" THEN "raised" ELSE dest[1]))
            IN IF raised = "mkdir"
               THEN FileItem(0, 0, 1, fsFiles, fsDirs, t1, row("FAIL"))
               ELSE IF fm.source \notin fsFiles
               THEN FileItem(0, 0, 1, fsFiles, fsDirs \cup MkdirP(dir), t2,
                             row("FAIL (source not found)"))
               ELSE IF raised = "copy2"
               THEN FileItem(0, 0, 1, fsFiles, fsDirs \cup MkdirP(dir), t3, row("FAIL"))
               ELSE FileItem(1, 0, 0, fsFiles \cup {dest[1]}, fsDirs \cup MkdirP(dir),
                             t3, row("OK"))

\* One mapping of the normal-mode loop; raised says where, if anywhere, the
\* try block raises.
copy_real_item(fm, raised) ==
    LET dest == get_destination(fm, platform)
        row(text) == Row("copy_files", "", fm.source, text)
    IN IF dest = <<>>
       THEN FileItem(0, 1, 0, fsFiles, fsDirs, trace, row("SKIP (no destination)"))
       ELSE IF fm.source \notin fsFiles
       THEN FileItem(0, 0, 1, fsFiles, fsDirs, Append(trace, Exists(fm.source)),
                     row("FAIL (source not found)"))
       ELSE LET t0 == Append(trace, Exists(fm.source))
                dir == Parent(dest[1])
                t1 == Append(t0, Ev("mkdir", dir, IF raised = "mkdir" THEN "raised" ELSE "ok"))
                t2 == Append(t1, Ev("copy2", fm.source,
                                    IF raised = "copy2" THEN "raised" ELSE dest[1]))
            IN CASE raised = "mkdir" -> FileItem(0, 0, 1, fsFiles, fsDirs, t1, row("FAIL"))
                 [] raised = "copy2" ->
                        FileItem(0, 0, 1, fsFiles, fsDirs \cup MkdirP(dir), t2, row("FAIL"))
                 [] OTHER ->
                        FileItem(1, 0, 0, fsFiles \cup {dest[1]}, fsDirs \cup MkdirP(dir),
                                 t2, row("OK"))

CopyDry ==
    /\ pc = "copy_loop"
    /\ dry_run
    /\ idx <= Len(config.files)
    /\ LET r == copy_dry_item(config.files[idx])
       IN Apply(r) /\ fsFiles' = r.files /\ fsDirs' = r.dirs
    /\ UNCHANGED <<inputs, pc, config, avail, manager, cache_updated, totals,
                   exit_code, calls>>

CopyReal ==
    /\ pc = "copy_loop"
    /\ ~dry_run
    /\ idx <= Len(config.files)
    /\ \E raised \in {"none", "mkdir", "copy2"} :
        LET r == copy_real_item(config.files[idx], raised)
        IN Apply(r) /\ fsFiles' = r.files /\ fsDirs' = r.dirs
    /\ UNCHANGED <<inputs, pc, config, avail, manager, cache_updated, totals,
                   exit_code, calls>>

CopyReturn ==
    /\ pc = "copy_loop"
    /\ idx > Len(config.files)
    /\ AddTotals
    /\ pc' = "summary"
    /\ UNCHANGED <<inputs, config, fs, avail, manager, adapter, idx, counters,
                   exit_code, trace, console, calls>>

-----------------------------------------------------------------------------
(* show_status *)

\* Entry of show_status: it selects the manager itself and returns at once
\* when there is none; main then returns 0.
StatusBegin ==
    /\ pc = "show_status"
    /\ \E av \in [Managers -> BOOLEAN] :
        /\ Select(av)
        /\ IF manager' = NoManager
           THEN Return(0)
           ELSE pc' = "status_loop" /\ exit_code' = exit_code
    /\ idx' = 1
    /\ UNCHANGED <<inputs, config, fs, counters, totals, console, calls>>

\* One package of the status table; a package without id prints no row.
status_item(w, out) ==
    LET package_id == get_id(w.pkg, platform, manager)
    IN IF NoId(package_id)
       THEN [cache |-> installed_cache, trace |-> trace, rows |-> <<>>]
       ELSE LET q == is_installed(manager, package_id[1], installed_cache, out, trace)
            IN [cache |-> q.cache, trace |-> q.trace,
                rows |-> <<Row("show_status", w.section, w.pkg.name,
                               IF q.ret THEN "installed" ELSE "missing")>>]

StatusStep ==
    /\ pc = "status_loop"
    /\ idx <= Len(StatusWork(config, platform))
    /\ \E out \in ListOutcomes(manager) :
        LET r == status_item(StatusWork(config, platform)[idx], out)
        IN /\ installed_cache' = r.cache
           /\ trace' = r.trace
           /\ console' = console \o r.rows
    /\ idx' = idx + 1
    /\ UNCHANGED <<inputs, pc, config, fs, avail, manager, cache_updated, counters,
                   totals, exit_code, calls>>

StatusReturn ==
    /\ pc = "status_loop"
    /\ idx > Len(StatusWork(config, platform))
    /\ Return(0)
    /\ UNCHANGED <<inputs, config, fs, avail, manager, adapter, idx, counters,
                   totals, trace, console, calls>>

-----------------------------------------------------------------------------
(* A client of the module: get_package_manager, then calls on the adapter *)

\* Package identifiers a client asks about.
LibIds == {"Vim", "git"}

LibSelect ==
    /\ pc = "lib"
    /\ \E av \in [Managers -> BOOLEAN] : Select(av)
    /\ pc' = IF manager' = NoManager THEN "done" ELSE "lib_calls"
    /\ UNCHANGED <<inputs, config, fs, idx, counters, totals, exit_code, console, calls>>

LibCall ==
    /\ pc = "lib_calls"
    /\ calls < MaxCalls
    /\ calls' = calls + 1
    /\ UNCHANGED <<inputs, pc, config, fs, avail, manager, idx, counters, totals,
                   exit_code, console>>

LibGetInstalled ==
    /\ LibCall
    /\ \E out \in ListOutcomes(manager) :
        LET g == get_installed_packages(manager, installed_cache, out,
                                        Append(trace, Ev("get_installed_packages", "", "")))
        IN installed_cache' = g.cache /\ trace' = g.trace
    /\ UNCHANGED cache_updated

LibIsInstalled ==
    /\ LibCall
    /\ \E id \in LibIds, out \in ListOutcomes(manager) :
        LET q == is_installed(manager, id, installed_cache, out, trace)
        IN installed_cache' = q.cache /\ trace' = q.trace
    /\ UNCHANGED cache_updated

LibInstall ==
    /\ LibCall
    /\ \E id \in LibIds, dry \in BOOLEAN, ok \in BOOLEAN :
        trace' = install(manager, id, <<>>, dry, ok, trace).trace
    /\ UNCHANGED adapter

LibUpdateCache ==
    /\ LibCall
    /\ \E dry \in BOOLEAN, ok \in BOOLEAN :
        LET u == update_cache(manager, cache_updated, dry, ok, trace)
        IN cache_updated' = u.updated /\ trace' = u.trace
    /\ UNCHANGED installed_cache

-----------------------------------------------------------------------------
(* Specification *)

Next ==
    \/ MainDetect
    \/ MainLoad
    \/ MainSelect
    \/ InstallBegin
    \/ InstallDry
    \/ InstallReal
    \/ InstallReturn
    \/ CopyBegin
    \/ CopyDry
    \/ CopyReal
    \/ CopyReturn
    \/ Summary
    \/ StatusBegin
    \/ StatusStep
    \/ StatusReturn
    \/ LibSelect
    \/ LibGetInstalled
    \/ LibIsInstalled
    \/ LibInstall
    \/ LibUpdateCache

Spec == Init /\ [][Next]_vars

-----------------------------------------------------------------------------
(* Vocabulary of the properties *)

\* The rows a handler printed.
RowsOf(who) == {i \in DOMAIN console : console[i].who = who}

\* The positions of the trace where an external command cmd ran.
Ran(cmd) == {i \in DOMAIN trace : trace[i].op = "run_cmd" /\ trace[i].arg = cmd}

\* The positions of the trace where the adapter method op was called.
Called(op) == {i \in DOMAIN trace : trace[i].op = op}

IsInstallCmd(cmd) == \E m \in Managers : StartsWith(cmd, InstallPrefix(m))

IsUpdateCmd(cmd) == \E m \in {"brew", "apt"} : cmd = UpdateCmd(m)

\* The positions of the trace that change the system or the filesystem.
Mutations ==
    {i \in DOMAIN trace :
        \/ trace[i].op = "run_cmd" /\ (IsInstallCmd(trace[i].arg) \/ IsUpdateCmd(trace[i].arg))
        \/ trace[i].op \in {"mkdir", "copy2"}}

\* The configuration entry (section, name) is a bare string.
BareString(section, name) ==
    \E i \in DOMAIN cfgFile.packages :
        /\ cfgFile.packages[i].section = section
        /\ cfgFile.packages[i].name = name
        /\ cfgFile.packages[i].data.kind = "str"

MainRun == entry = "main" /\ platform # "unknown" /\ cfgFile.state = "ok"

-----------------------------------------------------------------------------
(* C1 *)

\* C1: a package declared as a bare string is installed on every platform
\* with a manager: in a real run install_packages never skips it for lack
\* of an id; it calls install with the string, and prints OK when the
\* install command succeeds.
C1_BareStringIsInstalled ==
    \A i \in RowsOf("install_packages") :
        (MainRun /\ ~dry_run /\ BareString(console[i].section, console[i].name))
        => /\ console[i].text # "SKIP (no ID)"
           /\ console[i].text \in {"OK", "FAIL", "SKIP (already installed)"}
           /\ console[i].text = "SKIP (already installed)" \/ Called("install") # {}

-----------------------------------------------------------------------------
(* C2 *)

\* C2: `status` without a package manager ends with the platform-error exit
\* code 2, and nothing is installed, refreshed or copied.
C2_StatusWithoutManagerExits2 ==
    (MainRun /\ command = "status" /\ pc = "done" /\ manager = NoManager)
    => exit_code = 2 /\ Mutations = {}

-----------------------------------------------------------------------------
(* C3 *)

\* The (section, package) pairs for which install_packages asks is_installed.
InstallQueried ==
    {<<w.section, w.pkg.name>> :
        w \in {x \in Range(InstallWork(config, platform)) :
                  ~NoId(get_id(x.pkg, platform, manager))}}

\* The (section, package) pairs show_status has reported.
StatusReported == {<<console[i].section, console[i].name>> : i \in RowsOf("show_status")}

\* C3: show_status reports exactly the packages install_packages would ask
\* is_installed about, and calls neither install nor update_cache.
C3_StatusMirrorsInstaller ==
    (MainRun /\ command = "status" /\ pc = "done" /\ manager # NoManager)
    => /\ StatusReported = InstallQueried
       /\ Called("install") = {}
       /\ Called("update_cache") = {}

-----------------------------------------------------------------------------
(* C4 *)

\* The package install_packages is about to process has no id.
AtPackageWithoutId ==
    /\ entry = "main"
    /\ pc = "install_loop"
    /\ idx <= Len(InstallWork(config, platform))
    /\ NoId(get_id(InstallWork(config, platform)[idx].pkg, platform, manager))

\* C4: a package whose id resolves to none is a SKIP, in a real run and in
\* a dry-run: skip_count grows by 1, the other counters stay, and no adapter
\* method is called and no command is run for it.
C4_NoIdIsSkipped ==
    [][AtPackageWithoutId
       => /\ skip_count' = skip_count + 1
          /\ fail_count' = fail_count
          /\ success_count' = success_count
          /\ trace' = trace
          /\ console' = Append(console,
                 Row("install_packages", InstallWork(config, platform)[idx].section,
                     InstallWork(config, platform)[idx].pkg.name, "SKIP (no ID)"))]_vars

\* A real run has skipped a package without id after installing another.
C4_Witness ==
    /\ entry = "main" /\ ~dry_run
    /\ \E i, j \in RowsOf("install_packages") :
        i < j /\ console[i].text = "OK" /\ console[j].text = "SKIP (no ID)"
    /\ skip_count = 1 /\ fail_count = 0

-----------------------------------------------------------------------------
(* C5 *)

DryMain == entry = "main" /\ dry_run /\ command \in {"all", "packages", "files"}

\* C5: a dry-run of all, packages or files runs no install command and no
\* index refresh, creates no directory and copies no file; the filesystem
\* stays as it was and the adapter's installed set, once fetched, stays as
\* fetched.
C5_DryRunChangesNothing ==
    /\ [](DryMain => Mutations = {} /\ fsDirs = {} /\ ~cache_updated)
    /\ [][DryMain
          => /\ fsFiles' = fsFiles
             /\ fsDirs' = fsDirs
             /\ (installed_cache # <<>> => installed_cache' = installed_cache)]_vars

\* A dry-run of `all` has ended after listing a package to install and a
\* file to copy.
C5_Witness ==
    /\ DryMain /\ command = "all" /\ pc = "done"
    /\ \E i \in RowsOf("install_packages") : console[i].text = "INSTALL"
    /\ \E i \in RowsOf("copy_files") : console[i].text = "COPY"

-----------------------------------------------------------------------------
(* C6 *)

\* The positions of the trace where the adapter's list command ran.
Listed == IF manager = NoManager THEN {} ELSE Ran(ListCmd(manager))

\* C6: the list command runs at most once per adapter instance; it has run
\* exactly when the cache is populated; the cache holds lower-cased entries;
\* a failed list leaves the empty set, after which every is_installed
\* answers false and the command is not run again.
C6_ListRunsAtMostOnce ==
    /\ Cardinality(Listed) <= 1
    /\ (installed_cache = <<>>) <=> (Listed = {})
    /\ installed_cache # <<>> => \A x \in installed_cache[1] : Lower(x) = x
    /\ \A i \in Listed :
        trace[i].to = "failed"
        => /\ installed_cache = <<{}>>
           /\ \A j \in Called("returned") : trace[j].to = "False"

\* Two is_installed calls on the same adapter after its list command failed.
C6_Witness ==
    /\ \E i \in Listed : trace[i].to = "failed"
    /\ Cardinality(Called("is_installed")) >= 2

-----------------------------------------------------------------------------
(* C7 *)

\* The positions of the trace where the index refresh ran.
Refreshed == {i \in DOMAIN trace : trace[i].op = "run_cmd" /\ IsUpdateCmd(trace[i].arg)}

\* install_packages has passed its cache refresh.
PastRefresh ==
    /\ entry = "main" /\ command \in {"all", "packages"}
    /\ manager \in {"brew", "apt"}
    /\ pc \in {"install_loop", "copy_files", "copy_loop", "summary", "done"}

\* C7: with brew or apt a real run of install_packages refreshes the index
\* exactly once, before every is_installed and every install; update_cache
\* called again on the same adapter runs nothing more; a dry-run never
\* refreshes.
C7_RefreshOnceAndFirst ==
    /\ Cardinality(Refreshed) <= 1
    /\ (Refreshed # {}) <=> cache_updated
    /\ (entry = "main" /\ dry_run) => Refreshed = {}
    /\ (PastRefresh /\ ~dry_run)
       => /\ Cardinality(Refreshed) = 1
          /\ \A i \in Refreshed, j \in Called("is_installed") \cup Called("install") : i < j
    /\ entry = "lib"
       => ((Refreshed # {}) <=>
             (\E i \in Called("update_cache") : trace[i].arg # "winget" /\ trace[i].to = ""))

\* A real run has refreshed the index, asked is_installed and installed, in
\* this order.
C7_Witness ==
    /\ PastRefresh /\ ~dry_run
    /\ \E i \in Refreshed, j \in Called("is_installed"), k \in Called("install") :
        i < j /\ j < k

-----------------------------------------------------------------------------
(* C8 *)

\* The rows that report a failed item.
FailRows == {i \in DOMAIN console : StartsWith(console[i].text, "FAIL")}

\* A configuration or platform error.
FatalError ==
    \/ platform = "unknown"
    \/ cfgFile.state # "ok"
    \/ command \in {"all", "packages"} /\ manager = NoManager

\* C8: for all, packages and files main returns 0 exactly when no item
\* failed, 1 exactly when some item failed, and 2 exactly on a configuration
\* or platform error, in which case no item has been processed.
C8_ExitCode ==
    (entry = "main" /\ pc = "done" /\ command \in {"all", "packages", "files"})
    => /\ exit_code \in {0, 1, 2}
       /\ exit_code = 2 <=> FatalError
       /\ exit_code = 2 => console = <<>>
       /\ exit_code = 1 <=> FailRows # {}
       /\ exit_code = 0 <=> (~FatalError /\ FailRows = {})

\* `all` has ended with code 1 after one package was installed and one file
\* failed.
C8_Witness ==
    /\ entry = "main" /\ pc = "done" /\ command = "all" /\ exit_code = 1
    /\ \E i \in RowsOf("install_packages") : console[i].text = "OK"
    /\ \E i \in RowsOf("copy_files") : i \in FailRows

-----------------------------------------------------------------------------
(* C9 *)

\* C9: get_package_manager returns winget on windows iff winget is
\* available; brew on wsl and macos whenever brew is available; apt only on
\* wsl, iff brew is not available and apt is; nothing otherwise, and on an
\* unknown platform nothing without any probe.  What it returns was probed
\* and found available.
C9_ManagerSelection ==
    /\ manager \in Managers \cup {NoManager}
    /\ manager # NoManager => avail[manager] = "yes"
    /\ platform = "unknown"
       => manager = NoManager /\ \A m \in Managers : avail[m] = "unprobed"
    /\ platform = "windows"
       => /\ manager = "winget" <=> avail["winget"] = "yes"
          /\ manager \in {"winget", NoManager}
          /\ avail["brew"] = "unprobed" /\ avail["apt"] = "unprobed"
    /\ platform \in {"wsl", "macos"}
       => /\ avail["winget"] = "unprobed"
          /\ manager = "brew" <=> avail["brew"] = "yes"
          /\ avail["apt"] # "unprobed" => avail["brew"] = "no"
    /\ platform = "wsl"
       => (manager = "apt" <=> (avail["brew"] = "no" /\ avail["apt"] = "yes"))
    /\ platform = "macos"
       => manager # "apt" /\ avail["apt"] = "unprobed"

\* On wsl, brew was probed and missing and apt was returned.
C9_Witness ==
    /\ platform = "wsl" /\ manager = "apt"
    /\ avail["brew"] = "no" /\ avail["apt"] = "yes"

-----------------------------------------------------------------------------
(* C10 *)

\* copy_files, in a real run, is about to process a mapping.
AtMapping == entry = "main" /\ pc = "copy_loop" /\ ~dry_run /\ idx <= Len(config.files)

\* C10: in a real run a mapping without destination for the platform is a
\* SKIP for which the source is not looked at; a mapping with a destination
\* and a missing source is a FAIL for which nothing is created or copied;
\* in both cases the loop goes on to the next mapping.
C10_MissingSourceFails ==
    [][AtMapping
       => LET fm == config.files[idx]
              dest == get_destination(fm, platform)
          IN /\ dest = <<>>
                => /\ skip_count' = skip_count + 1
                   /\ fail_count' = fail_count
                   /\ trace' = trace
                   /\ UNCHANGED <<fsFiles, fsDirs>>
                   /\ pc' = "copy_loop" /\ idx' = idx + 1
             /\ (dest # <<>> /\ fm.source \notin fsFiles)
                => /\ fail_count' = fail_count + 1
                   /\ skip_count' = skip_count
                   /\ success_count' = success_count
                   /\ trace' = Append(trace, Ev("exists", fm.source, "False"))
                   /\ UNCHANGED <<fsFiles, fsDirs>>
                   /\ pc' = "copy_loop" /\ idx' = idx + 1]_vars

\* A real run reported a missing source and then copied the next mapping.
C10_Witness ==
    /\ entry = "main" /\ ~dry_run
    /\ \E i, j \in RowsOf("copy_files") :
        /\ i < j
        /\ console[i].text = "FAIL (source not found)"
        /\ console[j].text = "OK"
    /\ Cardinality(Called("mkdir")) = 1

-----------------------------------------------------------------------------
(* C11 *)

\* The (section, package) pairs of the loop that is running.
CurrentWork ==
    IF pc = "status_loop" THEN StatusWork(config, platform) ELSE InstallWork(config, platform)

\* install_packages or show_status is about to process a package.
AtPackage ==
    /\ entry = "main"
    /\ pc \in {"install_loop", "status_loop"}
    /\ idx <= Len(CurrentWork)

\* What the step adds to the trace first, if anything.
FirstNew == IF Len(trace') > Len(trace) THEN <<trace'[Len(trace) + 1]>> ELSE <<>>

\* C11: the id a package is looked up under is the value of the manager-name
\* key whenever that key is present, also when the platform key is present
\* too; the value of the platform key only when the manager-name key is
\* absent; and none when both are absent (no lookup is made then, nor for
\* an empty value).
C11_ManagerKeyFirst ==
    [][AtPackage
       => LET ids == CurrentWork[idx].pkg.ids
              asks(id) == FirstNew = <<Ev("is_installed", id, "")>>
          IN /\ (manager \in DOMAIN ids /\ ids[manager] # "") => asks(ids[manager])
             /\ (manager \in DOMAIN ids /\ ids[manager] = "") => FirstNew = <<>>
             /\ (manager \notin DOMAIN ids /\ platform \in DOMAIN ids /\ ids[platform] # "")
                => asks(ids[platform])
             /\ (manager \notin DOMAIN ids /\ platform \notin DOMAIN ids)
                => FirstNew = <<>>]_vars

\* A package with a brew key and a macos key has been looked up on macos
\* with brew, under the brew key's value.
C11_Witness ==
    /\ entry = "main" /\ platform = "macos" /\ manager = "brew"
    /\ \E i \in RowsOf("install_packages") :
        console[i].section = "unix_only" /\ console[i].name = "vi"
    /\ \E i \in Called("is_installed") : trace[i].arg = "vim"
    /\ \A i \in Called("is_installed") : trace[i].arg # "mvim"

-----------------------------------------------------------------------------
(* C12 *)

\* The lines install_packages printed, in order.
InstallRows == SelectSeq(console, LAMBDA r : r.who = "install_packages")

\* How many packages the configuration declares in the sections of S.
RECURSIVE PackagesIn(_, _)
PackagesIn(pk, S) ==
    IF pk = <<>> THEN 0
    ELSE (IF Head(pk).section \in S THEN Len(Head(pk).pkgs) ELSE 0) + PackagesIn(Tail(pk), S)

\* The sections install_packages applies to the platform.
Applicable == {sections_to_process(platform)[i] : i \in DOMAIN sections_to_process(platform)}

\* install_packages of a real run is in its loop, or has returned.
InstallRunning == MainRun /\ ~dry_run /\ pc = "install_loop"

InstallReturned ==
    /\ MainRun /\ ~dry_run
    /\ \/ command = "all" /\ pc = "copy_files"
       \/ command = "packages" /\ pc = "summary"

InstallOver ==
    /\ MainRun /\ ~dry_run
    /\ command \in {"all", "packages"} /\ manager # NoManager
    /\ pc \in {"copy_files", "copy_loop", "summary", "done"}

CountRows(rows, texts) == Cardinality({i \in DOMAIN rows : rows[i].text \in texts})

\* C12: a real run of install_packages gives every package of every
\* applicable section exactly one line, OK, SKIP or FAIL, in the order of
\* the sections and, within a section, of the configuration; a failure
\* only adds one to fail_count and the loop goes on; the three counters
\* count the lines of their kind, and on return their sum is the number of
\* packages the configuration declares in the applicable sections.
C12_EveryPackageOnce ==
    LET rows == InstallRows
        work == InstallWork(config, platform)
        skips == {"SKIP (no ID)", "SKIP (already installed)"}
    IN /\ (InstallRunning \/ InstallOver)
          => /\ Len(rows) <= Len(work)
             /\ \A i \in DOMAIN rows :
                 /\ rows[i].section = work[i].section
                 /\ rows[i].name = work[i].pkg.name
                 /\ rows[i].text \in {"OK", "FAIL"} \cup skips
             /\ \A i \in DOMAIN trace : trace[i].op = "run_cmd"
                 => \/ IsInstallCmd(trace[i].arg) \/ IsUpdateCmd(trace[i].arg)
                    \/ \E m \in Managers : trace[i].arg \in {ProbeCmd(m), ListCmd(m)}
       /\ (InstallRunning \/ InstallReturned)
          => /\ success_count = CountRows(rows, {"OK"})
             /\ skip_count = CountRows(rows, skips)
             /\ fail_count = CountRows(rows, {"FAIL"})
             /\ success_count + skip_count + fail_count = Len(rows)
       /\ InstallRunning => Len(rows) = idx - 1
       /\ InstallOver => Len(rows) = PackagesIn(config.packages, Applicable)
       /\ InstallReturned
          => success_count + skip_count + fail_count
               = PackagesIn(config.packages, Applicable)

\* install_packages has returned after a failed install followed by a
\* successful one.
C12_Witness ==
    /\ InstallReturned
    /\ \E i, j \in DOMAIN InstallRows :
        i < j /\ InstallRows[i].text = "FAIL" /\ InstallRows[j].text = "OK"
    /\ fail_count = 1 /\ success_count = 1

-----------------------------------------------------------------------------
(* C13 *)

\* The packages install_packages has processed whose id is package_id and
\* is not found in the adapter's cache.
Missing(package_id) ==
    {i \in DOMAIN InstallRows :
        LET id == get_id(InstallWork(config, platform)[i].pkg, platform, manager)
        IN /\ id = <<package_id>>
           /\ installed_cache # <<>>
           /\ ~Matches(manager, package_id, installed_cache[1])}

\* The ids install was called with.
InstallIds == {trace[i].arg : i \in Called("install")}

\* The calls of install with package_id.
InstallsOf(package_id) == {i \in Called("install") : trace[i].arg = package_id}

\* C13: once the first list command has filled an adapter's cache the cache
\* never changes, not even when install succeeds on that adapter, so
\* is_installed answers the same for an id before and after its install;
\* hence a real run calls install once for every processed package whose id
\* is not in the cache, twice when two packages share such an id.
C13_CacheNeverChanges ==
    /\ [][installed_cache # <<>> => installed_cache' = installed_cache]_vars
    /\ [](\A i, j \in Called("returned") :
            trace[i].arg = trace[j].arg => trace[i].to = trace[j].to)
    /\ []((InstallRunning \/ InstallOver)
          => \A id \in InstallIds \cup {"vim", "Vim.Vim", "git"} :
                Cardinality(InstallsOf(id)) = Cardinality(Missing(id)))

\* A real run has installed an id with success and then called install for
\* the same id again, is_installed having answered False both times.
C13_Witness ==
    /\ InstallOver
    /\ \E i, j \in Called("install") :
        /\ i < j
        /\ trace[i].arg = trace[j].arg
        /\ trace[i + 1] = RunCmd(InstallCmd(manager, trace[i].arg, <<>>), TRUE)
        /\ trace[j - 1] = Ev("returned", trace[j].arg, "False")
        /\ Cardinality(Missing(trace[i].arg)) = 2

-----------------------------------------------------------------------------
(* C14 *)

\* The lines copy_files printed, in order.
CopyRows == SelectSeq(console, LAMBDA r : r.who = "copy_files")

\* What the dry-run table shows for the i-th package install_packages
\* visits, given the same configuration, platform, manager and list output
\* as the running process.
DryPackageAction(i) ==
    {install_dry_item(InstallWork(config, platform)[i], out).row.text :
        out \in ListOutcomes(manager)}

\* A real run treats every package it has processed as the dry-run table
\* says, and on return its counters are those of the dry run.
DryRunPredictsPackages ==
    /\ (InstallRunning \/ InstallOver)
       => \A i \in DOMAIN InstallRows :
            DryPackageAction(i) =
                {CASE InstallRows[i].text \in {"OK", "FAIL"} -> "INSTALL"
                   [] InstallRows[i].text = "SKIP (already installed)" -> "SKIP (installed)"
                   [] OTHER -> InstallRows[i].text}
    /\ InstallReturned
       => /\ skip_count
               = Cardinality({i \in DOMAIN InstallRows : "INSTALL" \notin DryPackageAction(i)})
          /\ success_count + fail_count
               = Cardinality({i \in DOMAIN InstallRows : "INSTALL" \in DryPackageAction(i)})

\* A real run skips, and fails for a missing source, exactly the mappings
\* the dry-run table of the same starting files marks that way.
DryRunPredictsFiles ==
    (MainRun /\ ~dry_run)
    => \A i \in DOMAIN CopyRows :
        \A text \in {"SKIP (no destination)", "FAIL (source not found)"} :
            CopyRows[i].text = text
                <=> dry_file_action(config.files[i], platform, fsFiles0) = text

\* C14: the dry run predicts the real run: with the same configuration,
\* platform, manager and installed set, the packages the dry run marks SKIP
\* are those the real run skips and the packages it marks INSTALL are those
\* the real run calls install for, so the dry run's skip_count is the real
\* skip_count and its success_count the real success_count + fail_count;
\* and the mappings the dry run marks SKIP or FAIL (source not found) are
\* those the real run skips or fails for a missing source.
C14_DryRunPredictsRealRun == DryRunPredictsPackages /\ DryRunPredictsFiles

-----------------------------------------------------------------------------
(* C15 *)

\* The positions of the trace that belong to the package side: external
\* commands and adapter calls.
PackageEvents ==
    {i \in DOMAIN trace :
        trace[i].op \in {"run_cmd", "is_installed", "returned", "install", "update_cache"}}

\* The positions of the trace where copy_files touches the filesystem.
FileEvents == {i \in DOMAIN trace : trace[i].op \in {"exists", "mkdir", "copy2"}}

\* C15: with the command files no package manager is selected or probed and
\* no external command runs; copy_files runs and main returns 0 when no
\* mapping failed and 1 otherwise.  With the command all the manager is
\* selected and every package is processed before copy_files looks at any
\* file, and without a manager main returns 2 and no file is looked at or
\* copied.
C15_FilesNeedNoManager ==
    /\ (entry = "main" /\ command = "files")
       => /\ manager = NoManager
          /\ \A m \in Managers : avail[m] = "unprobed"
          /\ PackageEvents = {}
          /\ RowsOf("install_packages") = {}
          /\ (MainRun /\ pc = "done")
             => /\ Len(CopyRows) = Len(config.files)
                /\ exit_code = IF \E i \in DOMAIN CopyRows : StartsWith(CopyRows[i].text, "FAIL")
                               THEN 1 ELSE 0
    /\ (entry = "main" /\ command = "all")
       => /\ \A i \in PackageEvents, j \in FileEvents : i < j
          /\ \A i \in RowsOf("install_packages"), j \in RowsOf("copy_files") : i < j
          /\ (FileEvents # {} \/ RowsOf("copy_files") # {} \/ pc \in {"copy_files", "copy_loop"})
             => /\ manager # NoManager
                /\ Len(InstallRows) = Len(InstallWork(config, platform))
          /\ (MainRun /\ pc = "done" /\ manager = NoManager)
             => /\ exit_code = 2
                /\ FileEvents = {}
                /\ console = <<>>
                /\ fsFiles = fsFiles0 /\ fsDirs = {}

\* A real run of all has installed a package and then copied a file.
C15_Witness ==
    /\ entry = "main" /\ command = "all" /\ ~dry_run /\ pc = "done"
    /\ \E i \in Called("install"), j \in Called("copy2") : i < j /\ trace[j].to # "raised"
    /\ exit_code \in {0, 1}

====
